---- MODULE Spec2Model ----
(***************************************************************************)
(* Model of src/main.py: ExamParser.parse (the single-pass paragraph       *)
(* parser), ExamEngine.load_file / start_exam / update_stats and the       *)
(* question-screen handlers of main().                                     *)
(*                                                                         *)
(* Strings are sequences of one-character strings, so that "\n".join,      *)
(* += and strip() are computed and not assumed.  Python's None is          *)
(* modelled by NoId (no digits; re_q_start's \d+ never yields it),         *)
(* NoLabel, NoImage and NoError.                                           *)
(***************************************************************************)
EXTENDS Integers, Sequences, FiniteSets, TLC

\* ------------------------------------------------------------------------
\* Bounds of the model
\* ------------------------------------------------------------------------
MaxParas == 6        \* paragraphs of the document consumed by Spec
MaxBlob == 2         \* distinct embedded image blobs
SessionParas == 6    \* paragraphs of the document consumed by SessionSpec

\* ------------------------------------------------------------------------
\* Values
\* ------------------------------------------------------------------------
NoId == <<>>
NoLabel == "None"
NoImage == 0
NoError == "None"
NL == "\n"

Blobs == 1..MaxBlob
QIds == {<<1>>, <<2>>}
OptionLabels == {"A", "B"}
OptionTexts == {<<"x">>, <<"y">>}
StemTexts == {<<"q">>}
TokenLists == {<<>>, <<"A">>, <<"A", "A">>, <<"a", "B">>}

Range(s) == {s[i] : i \in DOMAIN s}

\* ord() of an option label, the order sorted() uses on one-letter strings
Ord(l) ==
  CASE l = "A" -> 65 [] l = "B" -> 66 [] l = "C" -> 67
    [] l = "D" -> 68 [] l = "E" -> 69 [] OTHER -> 0

\* str.upper() on a one-letter token
Upper(c) ==
  CASE c = "a" -> "A" [] c = "b" -> "B" [] c = "c" -> "C"
    [] c = "d" -> "D" [] c = "e" -> "E" [] OTHER -> c

\* [x.strip().upper() for x in re.split(r'[,\s]+', raw) if x.strip()]
UpperTokens(tokens) == [i \in DOMAIN tokens |-> Upper(tokens[i])]

\* int(current_q_id) on a string of decimal digits
RECURSIVE ToInt(_)
ToInt(ds) ==
  IF ds = <<>> THEN 0
  ELSE 10 * ToInt(SubSeq(ds, 1, Len(ds) - 1)) + ds[Len(ds)]

\* str.strip(): leading and trailing whitespace removed
IsSpace(c) == c \in {" ", NL}

RECURSIVE LStrip(_)
LStrip(s) ==
  IF s # <<>> /\ IsSpace(Head(s)) THEN LStrip(Tail(s)) ELSE s

RECURSIVE RStrip(_)
RStrip(s) ==
  IF s # <<>> /\ IsSpace(s[Len(s)]) THEN RStrip(SubSeq(s, 1, Len(s) - 1)) ELSE s

Strip(s) == LStrip(RStrip(s))

\* "\n".join(lines)
RECURSIVE JoinLines(_)
JoinLines(lines) ==
  IF lines = <<>> THEN <<>>
  ELSE IF Len(lines) = 1 THEN lines[1]
  ELSE lines[1] \o <<NL>> \o JoinLines(Tail(lines))

\* ------------------------------------------------------------------------
\* Paragraphs: para.text.strip() as classified by re_q_start, re_correct
\* and re_option (first match wins), with the blob of
\* get_image_from_paragraph
\* ------------------------------------------------------------------------
Para(k, i, t, l, c, b) ==
  [kind |-> k, q_id |-> i, text |-> t, label |-> l, tokens |-> c, img |-> b]

QuestionStartParas ==
  {Para("QuestionStart", i, t, NoLabel, <<>>, NoImage) : i \in QIds, t \in StemTexts}
  \cup {Para("QuestionStart", <<1>>, <<"q">>, NoLabel, <<>>, 1)}

CorrectAnswerParas ==
  {Para("CorrectAnswerLine", NoId, <<>>, NoLabel, c, NoImage) : c \in TokenLists}

OptionParas ==
  {Para("OptionLine", NoId, t, "A", <<>>, NoImage) : t \in OptionTexts}
  \cup {Para("OptionLine", NoId, <<"x">>, "B", <<>>, NoImage)}

OtherParas ==
  {Para("Other", NoId, <<"w">>, NoLabel, <<>>, NoImage),
   Para("Other", NoId, <<>>, NoLabel, <<>>, NoImage)}
  \cup {Para("Other", NoId, <<>>, NoLabel, <<>>, b) : b \in Blobs}

Paragraphs ==
  QuestionStartParas \cup CorrectAnswerParas \cup OptionParas \cup OtherParas

NoPara == Para("None", NoId, <<>>, NoLabel, <<>>, NoImage)

\* ------------------------------------------------------------------------
\* Question (class Question) and the option dicts of finalize_question
\* ------------------------------------------------------------------------
Question(q_id, text, options_data, is_multichoice, image_data) ==
  [id |-> q_id, text |-> text, options |-> options_data,
   is_multichoice |-> is_multichoice, image_data |-> image_data,
   user_answers |-> <<>>, is_locked |-> FALSE,
   is_correctly_answered |-> FALSE]

\* sorted(current_options.keys())
RECURSIVE SortedKeys(_)
SortedKeys(S) ==
  IF S = {} THEN <<>>
  ELSE LET m == CHOOSE x \in S : \A y \in S : Ord(x) <= Ord(y)
       IN <<m>> \o SortedKeys(S \ {m})

\* is_multi = len(current_correct) > 1
IsMulti(current_correct) == Len(current_correct) > 1

\* options_data built over the keys in descending order
OptionsData_Descending(current_options, current_correct) ==
  LET sorted_keys == SortedKeys(DOMAIN current_options)
      n == Len(sorted_keys)
  IN [k \in 1..n |->
        [text |-> current_options[sorted_keys[n + 1 - k]],
         is_correct |-> sorted_keys[n + 1 - k] \in Range(current_correct),
         original_label |-> sorted_keys[n + 1 - k]]]

\* the loop building options_data
OptionsData(current_options, current_correct) ==
  LET sorted_keys == SortedKeys(DOMAIN current_options)
  IN [k \in 1..Len(sorted_keys) |->
        [text |-> current_options[sorted_keys[k]],
         is_correct |-> sorted_keys[k] \in Range(current_correct),
         original_label |-> sorted_keys[k]]]

\* ------------------------------------------------------------------------
\* The locals of ExamParser.parse as one record
\* ------------------------------------------------------------------------
EmptyOptions == [l \in {} |-> <<>>]

InitialLocals(qs) ==
  [questions |-> qs, current_q_id |-> NoId, current_text |-> <<>>,
   current_options |-> EmptyOptions, last_option_label |-> NoLabel,
   current_correct |-> <<>>, current_image_data |-> NoImage]

\* the guard without its test of current_correct
FinalizeGuard_NoCorrectTest(st) ==
  /\ st.current_q_id # NoId
  /\ DOMAIN st.current_options # {}

\* the guard with "or" between its last two tests
FinalizeGuard_EitherOne(st) ==
  /\ st.current_q_id # NoId
  /\ (DOMAIN st.current_options # {} \/ st.current_correct # <<>>)

\* if current_q_id and current_options and current_correct
FinalizeGuard(st) ==
  /\ st.current_q_id # NoId
  /\ DOMAIN st.current_options # {}
  /\ st.current_correct # <<>>

FinalizedQuestion(st) ==
  Question(ToInt(st.current_q_id),
           Strip(JoinLines(st.current_text)),
           OptionsData(st.current_options, st.current_correct),
           IsMulti(st.current_correct),
           st.current_image_data)

\* the reset without its last assignment
ResetLocals_KeepsImage(st) ==
  [InitialLocals(st.questions) EXCEPT !.current_image_data = st.current_image_data]

\* the reset done only when a question was open
ResetLocals_OnlyWhenOpen(st) ==
  IF st.current_q_id # NoId THEN InitialLocals(st.questions) ELSE st

\* the six assignments closing finalize_question
ResetLocals(st) == InitialLocals(st.questions)

\* the new Question put in front of the bank
AppendQuestion_AtFront(qs, q) == <<q>> \o qs

\* questions.append(q)
AppendQuestion(qs, q) == Append(qs, q)

finalize_question(st) ==
  ResetLocals(IF FinalizeGuard(st)
              THEN [st EXCEPT !.questions = AppendQuestion(@, FinalizedQuestion(st))]
              ELSE st)

\* if img_blob and current_q_id and not current_correct
AssociateImage(st, p) ==
  IF p.img # NoImage /\ st.current_q_id # NoId /\ st.current_correct = <<>>
  THEN [st EXCEPT !.current_image_data = p.img]
  ELSE st

QuestionStartBranch(st, p) ==
  [finalize_question(st) EXCEPT
     !.current_q_id = p.q_id,
     !.current_text = IF p.text # <<>> THEN <<p.text>> ELSE <<>>]

\* the tokens added to the labels already declared
CorrectAnswerBranch_Extends(st, p) ==
  [st EXCEPT !.current_correct = @ \o UpperTokens(p.tokens)]

CorrectAnswerBranch(st, p) ==
  [st EXCEPT !.current_correct = UpperTokens(p.tokens)]

\* last_option_label set by the first OptionLine only
OptionBranch_KeepsFirstLabel(st, p) ==
  [st EXCEPT
     !.current_options =
        [l \in DOMAIN st.current_options \cup {p.label} |->
           IF l = p.label THEN p.text ELSE st.current_options[l]],
     !.last_option_label = IF @ = NoLabel THEN p.label ELSE @]

OptionBranch(st, p) ==
  [st EXCEPT
     !.current_options =
        [l \in DOMAIN st.current_options \cup {p.label} |->
           IF l = p.label THEN p.text ELSE st.current_options[l]],
     !.last_option_label = p.label]

OtherBranch(st, p) ==
  IF st.current_q_id = NoId THEN st
  ELSE IF DOMAIN st.current_options = {}
  THEN [st EXCEPT !.current_text = Append(@, p.text)]
  ELSE IF st.last_option_label # NoLabel
  THEN [st EXCEPT !.current_options[st.last_option_label] = @ \o <<NL>> \o p.text]
  ELSE st

\* one iteration of: for para in document.paragraphs
\* the loop body with the image association moved after the branches
ParaStep_ImageLast(st, p) ==
  IF p.text = <<>> /\ p.img = NoImage /\ p.kind = "Other" THEN st
  ELSE IF p.kind = "QuestionStart" THEN AssociateImage(QuestionStartBranch(st, p), p)
  ELSE IF p.kind = "CorrectAnswerLine" THEN AssociateImage(CorrectAnswerBranch(st, p), p)
  ELSE IF p.kind = "OptionLine" THEN AssociateImage(OptionBranch(st, p), p)
  ELSE AssociateImage(OtherBranch(st, p), p)

ParaStep(st, p) ==
  LET s1 == AssociateImage(st, p)
  IN IF p.text = <<>> /\ p.img = NoImage /\ p.kind = "Other" THEN s1
     ELSE IF p.kind = "QuestionStart" THEN QuestionStartBranch(s1, p)
     ELSE IF p.kind = "CorrectAnswerLine" THEN CorrectAnswerBranch(s1, p)
     ELSE IF p.kind = "OptionLine" THEN OptionBranch(s1, p)
     ELSE OtherBranch(s1, p)

\* ------------------------------------------------------------------------
\* State
\* ------------------------------------------------------------------------
VARIABLES
  pc,                  \* position of the session: "home", "failed", "parsing",
                       \* "loaded", "exam", "startup"
  nparas,              \* paragraphs of document.paragraphs consumed so far
  para,                \* the loop variable of parse
  questions,           \* parse: the list being built, then the list returned
  current_q_id,
  current_text,
  current_options,
  last_option_label,
  current_correct,
  current_image_data,
  error,               \* second component of parse's return value
  err,                 \* on_start_click: what load_file returned
  all_questions,       \* ExamEngine.all_questions
  active_questions,    \* ExamEngine.active_questions, as indices into all_questions
  current_idx,
  correct_count,
  answered_count,
  file,                \* what on_start_click found at DEFAULT_FILENAME
  hist,                \* history of the block opened by the last QuestionStart
  bank_hist,           \* hist of the block of each Question of questions
  shadow               \* locals of a second parse, fed the same stream
                       \* without the paragraphs before its first QuestionStart

parserVars ==
  <<questions, current_q_id, current_text, current_options,
    last_option_label, current_correct, current_image_data>>

vars ==
  <<pc, nparas, para, questions, current_q_id, current_text, current_options,
    last_option_label, current_correct, current_image_data, error, err,
    all_questions, active_questions, current_idx, correct_count,
    answered_count, file, hist, bank_hist, shadow>>

engineVars == <<active_questions, current_idx, correct_count, answered_count>>

Locals ==
  [questions |-> questions, current_q_id |-> current_q_id,
   current_text |-> current_text, current_options |-> current_options,
   last_option_label |-> last_option_label,
   current_correct |-> current_correct,
   current_image_data |-> current_image_data]

SetLocals(st) ==
  /\ questions' = st.questions
  /\ current_q_id' = st.current_q_id
  /\ current_text' = st.current_text
  /\ current_options' = st.current_options
  /\ last_option_label' = st.last_option_label
  /\ current_correct' = st.current_correct
  /\ current_image_data' = st.current_image_data

\* ------------------------------------------------------------------------
\* History of the block opened by the last QuestionStart
\* ------------------------------------------------------------------------
NoHist ==
  [started |-> FALSE,      \* a QuestionStart has been consumed
   block |-> 0,            \* number of QuestionStarts consumed
   idle_noise |-> FALSE,   \* something other than a QuestionStart was consumed before it
   seen_correct |-> FALSE, \* a CorrectAnswerLine was consumed in this block
   first_img |-> NoImage,  \* first blob consumed in this block before any CorrectAnswerLine
   imgs |-> {},            \* all blobs consumed in this block before any CorrectAnswerLine
   decl |-> <<>>,          \* the OptionLines of this block, in source order
   tokens |-> <<>>,        \* labels of the last CorrectAnswerLine of this block
   solo |-> InitialLocals(<<>>)] \* locals of a parse fed this block alone

Skipped(p) == p.kind = "Other" /\ p.text = <<>> /\ p.img = NoImage

HistStep(h, p) ==
  IF p.kind = "QuestionStart"
  THEN [NoHist EXCEPT !.started = TRUE, !.block = h.block + 1,
                      !.idle_noise = h.idle_noise,
                      !.solo = ParaStep(InitialLocals(<<>>), p)]
  ELSE IF ~h.started THEN [h EXCEPT !.idle_noise = @ \/ ~Skipped(p)]
  ELSE LET h1 == IF p.img # NoImage /\ ~h.seen_correct
                 THEN [h EXCEPT !.first_img = IF @ = NoImage THEN p.img ELSE @,
                                !.imgs = @ \cup {p.img}]
                 ELSE h
           h2 == [h1 EXCEPT !.solo = ParaStep(@, p)]
       IN IF p.kind = "CorrectAnswerLine"
          THEN [h2 EXCEPT !.seen_correct = TRUE, !.tokens = UpperTokens(p.tokens)]
          ELSE IF p.kind = "OptionLine"
          THEN [h2 EXCEPT !.decl = Append(@, <<p.label, p.text>>)]
          ELSE h2

\* bank_hist after a step that leaves the locals st
BankHistStep(st) ==
  IF Len(st.questions) > Len(questions)
  THEN Append(bank_hist, [hist EXCEPT !.solo = NoHist.solo])
  ELSE bank_hist

ShadowStep(sh, h, p) ==
  IF ~h.started /\ p.kind # "QuestionStart" THEN sh ELSE ParaStep(sh, p)

\* ------------------------------------------------------------------------
\* ExamEngine.load_file and the entry of ExamParser.parse
\* ------------------------------------------------------------------------
FileStates == {"absent", "vanished", "unreadable", "ok"}

\* sorted(qs, key=lambda x: x.id): stable insertion by id
RECURSIVE SortedById(_)
\* insertion before the questions of equal id: an unstable sort
InsertById_Unstable(sorted, q) ==
  LET k == Cardinality({i \in DOMAIN sorted : sorted[i].id < q.id})
  IN SubSeq(sorted, 1, k) \o <<q>> \o SubSeq(sorted, k + 1, Len(sorted))

InsertById(sorted, q) ==
  LET k == Cardinality({i \in DOMAIN sorted : sorted[i].id <= q.id})
  IN SubSeq(sorted, 1, k) \o <<q>> \o SubSeq(sorted, k + 1, Len(sorted))

SortedById(qs) ==
  IF qs = <<>> THEN <<>>
  ELSE InsertById(SortedById(SubSeq(qs, 1, Len(qs) - 1)), qs[Len(qs)])

\* load_file's own path search, then parse's exists check and Document()
\* the exists check inverted
ParseEntry_Inverted(f) ==
  IF f \notin {"absent", "vanished"} THEN "File not found"
  ELSE NoError

\* parse: the os.path.exists check and Document(filepath)
ParseEntry(f) ==
  IF f \in {"absent", "vanished"} THEN "File not found"
  ELSE IF f = "unreadable" THEN "Error reading file"
  ELSE NoError

\* load_file up to the return of its error: its own path search fails on
\* an absent file without calling parse
ParseOutcome(f) ==
  IF f = "absent" THEN [error |-> NoError, err |-> "File not found."]
  ELSE [error |-> ParseEntry(f), err |-> ParseEntry(f)]

Init ==
  /\ pc = "home"
  /\ nparas = 0
  /\ para = NoPara
  /\ questions = <<>>
  /\ current_q_id = NoId
  /\ current_text = <<>>
  /\ current_options = EmptyOptions
  /\ last_option_label = NoLabel
  /\ current_correct = <<>>
  /\ current_image_data = NoImage
  /\ error = NoError
  /\ err = NoError
  /\ all_questions = <<>>
  /\ active_questions = <<>>
  /\ current_idx = 0
  /\ correct_count = 0
  /\ answered_count = 0
  /\ file = "ok"
  /\ hist = NoHist
  /\ bank_hist = <<>>
  /\ shadow = InitialLocals(<<>>)

\* on_start_click -> load_file -> parse, up to the first paragraph
LoadFile ==
  /\ pc = "home"
  /\ \E f \in FileStates :
       LET o == ParseOutcome(f)
       IN /\ file' = f
          /\ error' = o.error
          /\ err' = o.err
          /\ pc' = IF o.err = NoError THEN "parsing" ELSE "failed"
  /\ SetLocals(InitialLocals(<<>>))
  /\ UNCHANGED <<nparas, para, all_questions, engineVars, hist, bank_hist, shadow>>

\* one iteration of the paragraph loop
Consume(P, max) ==
  /\ pc = "parsing"
  /\ nparas < max
  /\ \E p \in P :
       LET st == ParaStep(Locals, p)
       IN /\ para' = p
          /\ SetLocals(st)
          /\ hist' = HistStep(hist, p)
          /\ bank_hist' = BankHistStep(st)
          /\ shadow' = ShadowStep(shadow, hist, p)
  /\ nparas' = nparas + 1
  /\ UNCHANGED <<pc, error, err, all_questions, engineVars, file>>

ParsePara == Consume(Paragraphs, MaxParas)

\* end of the stream: the closing finalize_question, parse's return and
\* load_file's sort
ParseEnd ==
  /\ pc = "parsing"
  /\ LET st == finalize_question(Locals)
     IN /\ SetLocals(st)
        /\ bank_hist' = BankHistStep(st)
        /\ all_questions' = SortedById(st.questions)
  /\ shadow' = finalize_question(shadow)
  /\ hist' = [hist EXCEPT !.solo = NoHist.solo]
  /\ para' = NoPara
  /\ pc' = "loaded"
  /\ UNCHANGED <<nparas, error, err, engineVars, file>>

Next == LoadFile \/ ParsePara \/ ParseEnd

Spec == Init /\ [][Next]_vars

\* ------------------------------------------------------------------------
\* The session: ExamEngine.start_exam, update_stats and the handlers of
\* load_question_ui.  Question objects live in all_questions;
\* active_questions refers to them by index, as the Python lists share the
\* objects.  user_answers and current_idx are 0-based as in the source.
\* ------------------------------------------------------------------------
SessionTokenLists == {<<"A">>, <<"A", "B">>, <<"C">>, <<"C", "D">>}

SessionParagraphs ==
  {Para("QuestionStart", i, <<"q">>, NoLabel, <<>>, NoImage) : i \in QIds}
  \cup {Para("OptionLine", NoId, <<"x">>, l, <<>>, NoImage) : l \in OptionLabels}
  \cup {Para("CorrectAnswerLine", NoId, <<>>, NoLabel, c, NoImage) :
          c \in SessionTokenLists}

\* what the user can type in the Start ID and End ID fields
TypedIds == {1, 2}

Bijections(n) ==
  {f \in [1..n -> 1..n] : \A i, j \in 1..n : f[i] = f[j] => i = j}

\* the orders random.shuffle can leave a list in
Shuffles(seq) ==
  {[i \in 1..Len(seq) |-> seq[f[i]]] : f \in Bijections(Len(seq))}

RECURSIVE SortedSeq(_)
SortedSeq(S) ==
  IF S = {} THEN <<>>
  ELSE LET m == CHOOSE x \in S : \A y \in S : x <= y
       IN <<m>> \o SortedSeq(S \ {m})

\* [q for q in self.all_questions if start_id <= q.id <= end_id]
Filtered(start_id, end_id) ==
  SortedSeq({i \in DOMAIN all_questions :
               start_id <= all_questions[i].id /\ all_questions[i].id <= end_id})

\* the body of start_exam's loop over filtered, for one Question
ResetQuestion(q, options) ==
  [q EXCEPT !.user_answers = <<>>, !.is_locked = FALSE,
            !.is_correctly_answered = FALSE, !.options = options]

\* the states of all_questions start_exam's loop can leave
ResetAll(filtered, shuffle_ans) ==
  {qs \in [DOMAIN all_questions ->
             UNION {{ResetQuestion(all_questions[i], o) :
                       o \in Shuffles(all_questions[i].options)} \cup {all_questions[i]} :
                    i \in DOMAIN all_questions}] :
     \A i \in DOMAIN all_questions :
       IF i \in Range(filtered)
       THEN \E o \in (IF shuffle_ans THEN Shuffles(all_questions[i].options)
                      ELSE {all_questions[i].options}) :
              qs[i] = ResetQuestion(all_questions[i], o)
       ELSE qs[i] = all_questions[i]}

\* Question.check_answer
check_answer(q) ==
  Range(q.user_answers) = {i - 1 : i \in {k \in DOMAIN q.options : q.options[k].is_correct}}

\* get_current
HasCurrent == 0 <= current_idx /\ current_idx < Len(active_questions)

Current == all_questions[active_questions[current_idx + 1]]

SetCurrent(q) ==
  all_questions' = [all_questions EXCEPT ![active_questions[current_idx + 1]] = q]

\* update_stats
UpdateStats(is_correct) ==
  /\ answered_count' = answered_count + 1
  /\ correct_count' = IF is_correct THEN correct_count + 1 ELSE correct_count

\* on_start_click after load_file: engine.start_exam
StartExam ==
  /\ pc = "loaded"
  /\ \E start_id, end_id \in TypedIds, shuffle_q, shuffle_ans \in BOOLEAN :
       LET filtered == Filtered(start_id, end_id)
       IN IF filtered = <<>>
          THEN /\ err' = "No questions in range."
               /\ pc' = "startup"
               /\ UNCHANGED <<all_questions, active_questions, current_idx>>
          ELSE /\ all_questions' \in ResetAll(filtered, shuffle_ans)
               /\ active_questions' \in
                    (IF shuffle_q THEN Shuffles(filtered) ELSE {filtered})
               /\ current_idx' = 0
               /\ err' = NoError
               /\ pc' = "exam"
  /\ correct_count' = 0
  /\ answered_count' = 0
  /\ UNCHANGED <<nparas, para, parserVars, error, file, hist, bank_hist, shadow>>

\* on_option_click without its first line
ClickAllowed_Always(q) == TRUE

\* if q.is_locked: return
ClickAllowed(q) == ~q.is_locked

\* on_next's first assignment left out
LockQuestion_Forgets(q) == q

\* q.is_locked = True
LockQuestion(q) == [q EXCEPT !.is_locked = TRUE]

\* on_next scoring by check_answer alone
NextScore_Unguarded(q) == check_answer(q)

\* the argument on_next gives update_stats
NextScore(q) == IF q.user_answers = <<>> THEN FALSE ELSE check_answer(q)

\* the checkbox of option idx changes on an unlocked question; the
\* checkboxes of a multiple-choice question hold set(user_answers)
OnOptionClick ==
  /\ pc = "exam"
  /\ HasCurrent
  /\ ClickAllowed(Current)
  /\ \E idx \in 0..(Len(Current.options) - 1) :
       IF Current.is_multichoice
       THEN /\ SetCurrent([Current EXCEPT !.user_answers =
                 SortedSeq((Range(@) \ {idx}) \cup ({idx} \ Range(@)))])
            /\ UNCHANGED <<correct_count, answered_count>>
       ELSE LET q == [Current EXCEPT !.user_answers = <<idx>>, !.is_locked = TRUE]
            IN /\ SetCurrent(q)
               /\ UpdateStats(check_answer(q))
  /\ UNCHANGED <<pc, nparas, para, parserVars, error, err, active_questions,
                 current_idx, file, hist, bank_hist, shadow>>

OnNext ==
  /\ pc = "exam"
  /\ HasCurrent
  /\ IF ~Current.is_locked
     THEN /\ SetCurrent(LockQuestion(Current))
          /\ UpdateStats(NextScore(Current))
          /\ UNCHANGED current_idx
     ELSE /\ current_idx' = current_idx + 1
          /\ UNCHANGED <<all_questions, correct_count, answered_count>>
  /\ UNCHANGED <<pc, nparas, para, parserVars, error, err, active_questions,
                 file, hist, bank_hist, shadow>>

OnPrev ==
  /\ pc = "exam"
  /\ HasCurrent
  /\ current_idx > 0
  /\ current_idx' = current_idx - 1
  /\ UNCHANGED <<pc, nparas, para, parserVars, error, err, all_questions,
                 active_questions, correct_count, answered_count, file, hist,
                 bank_hist, shadow>>

\* the Restart button of the summary page
GoHome ==
  /\ pc = "exam"
  /\ ~HasCurrent
  /\ pc' = "startup"
  /\ UNCHANGED <<nparas, para, parserVars, error, err, all_questions,
                 engineVars, file, hist, bank_hist, shadow>>

\* on_start_click on the startup view shown again: load_file parses the
\* same document into fresh Question objects and sorts them
OnStartClickAgain ==
  /\ pc = "startup"
  /\ all_questions' = SortedById(questions)
  /\ err' = NoError
  /\ pc' = "loaded"
  /\ UNCHANGED <<nparas, para, parserVars, error, engineVars, file, hist,
                 bank_hist, shadow>>

SessionParsePara == Consume(SessionParagraphs, SessionParas)

SessionNext ==
  \/ LoadFile
  \/ SessionParsePara
  \/ ParseEnd
  \/ StartExam
  \/ OnOptionClick
  \/ OnNext
  \/ OnPrev
  \/ GoHome
  \/ OnStartClickAgain

SessionSpec == Init /\ [][SessionNext]_vars

\* ------------------------------------------------------------------------
\* Properties of the bank built by ExamParser.parse
\* ------------------------------------------------------------------------
Bank == DOMAIN questions

HasCorrectOption(q) == \E k \in DOMAIN q.options : q.options[k].is_correct

LabelsOf(q) == {q.options[k].original_label : k \in DOMAIN q.options}

DeclaredLabels(h) == {h.decl[j][1] : j \in DOMAIN h.decl}

\* index in h.decl of the last OptionLine that declared label l
LastDecl(h, l) ==
  CHOOSE j \in DOMAIN h.decl :
    /\ h.decl[j][1] = l
    /\ \A j2 \in DOMAIN h.decl : h.decl[j2][1] = l => j2 <= j

\* t is d, or d followed by newline-joined continuation lines
StartsWithLine(t, d) ==
  \/ t = d
  \/ /\ Len(t) > Len(d)
     /\ SubSeq(t, 1, Len(d)) = d
     /\ t[Len(d) + 1] = NL

\* C1 as stated: every Question of the returned bank has at least one
\* option and at least one option with is_correct = true.
C1_AsStated ==
  pc = "loaded" =>
    \A i \in Bank :
      Len(questions[i].options) >= 1 /\ HasCorrectOption(questions[i])

\* C1 amended: every Question of the bank has at least one option and a
\* non-empty list of declared correct labels; an option is marked correct
\* exactly when its label is among the declared ones, so the Question has a
\* correct option exactly when a declared label names one of its options.
C1_OptionAndDeclaredLabel ==
  \A i \in Bank :
    LET q == questions[i]
        declared == Range(bank_hist[i].tokens)
    IN /\ Len(q.options) >= 1
       /\ declared # {}
       /\ \A k \in DOMAIN q.options :
            q.options[k].is_correct <=> q.options[k].original_label \in declared
       /\ HasCorrectOption(q) <=> (declared \cap LabelsOf(q) # {})

\* a returned Question whose declared labels name none of its options
C1_Witness ==
  /\ pc = "loaded"
  /\ \E i \in Bank :
       /\ ~HasCorrectOption(questions[i])
       /\ bank_hist[i].tokens # <<>>

\* C2: is_multichoice is true exactly when the set of labels declared by
\* the Question's last CorrectAnswerLine has more than one element.
C2_MultiIffSeveralLabels ==
  \A i \in Bank :
    questions[i].is_multichoice <=> Cardinality(Range(bank_hist[i].tokens)) > 1

\* C3: when image paragraphs arrive while the question is open and before
\* its CorrectAnswerLine, the Question's image is the first of them.
C3_FirstImageWins ==
  \A i \in Bank :
    bank_hist[i].first_img # NoImage =>
      questions[i].image_data = bank_hist[i].first_img

\* C4: a Question's image is one that arrived while the question was open
\* and before any CorrectAnswerLine of that question.
C4_ImageOnlyBeforeCorrect ==
  \A i \in Bank :
    questions[i].image_data # NoImage =>
      questions[i].image_data \in bank_hist[i].imgs

\* C5: a finalization of an open question appends one Question iff an
\* option and a correct label were declared in its block; otherwise the bank
\* is left as it was and the question opened next starts from a clean
\* accumulator, as if the dropped block had not been in the stream.
Finalizing ==
  /\ pc = "parsing"
  /\ hist.started
  /\ \/ pc' = "loaded"
     \/ nparas' = nparas + 1 /\ para'.kind = "QuestionStart"

C5_KeptBlock == hist.decl # <<>> /\ hist.tokens # <<>>

C5_FinalizeAppendsIff ==
  [][Finalizing =>
       /\ C5_KeptBlock =>
            /\ Len(questions') = Len(questions) + 1
            /\ SubSeq(questions', 1, Len(questions)) = questions
       /\ ~C5_KeptBlock => questions' = questions
       /\ pc' = "parsing" =>
            /\ current_q_id' = para'.q_id
            /\ current_text' = <<para'.text>>
            /\ current_options' = EmptyOptions
            /\ last_option_label' = NoLabel
            /\ current_correct' = <<>>
            /\ current_image_data' = NoImage]_vars

\* a block was dropped and the block after it was extracted
C5_Witness ==
  /\ pc = "loaded"
  /\ hist.block = 2
  /\ Len(questions) = 1
  /\ bank_hist[1].block = 2

\* C6: the options of a Question are one Option per label declared by an
\* OptionLine of its block, in ascending label order, each with the text of
\* the last declaration of its label.
C6_OptionsSortedLastDeclaration ==
  \A i \in Bank :
    LET q == questions[i]
        h == bank_hist[i]
    IN /\ LabelsOf(q) = DeclaredLabels(h)
       /\ Len(q.options) = Cardinality(DeclaredLabels(h))
       /\ \A k1, k2 \in DOMAIN q.options :
            k1 < k2 => Ord(q.options[k1].original_label)
                         < Ord(q.options[k2].original_label)
       /\ \A k \in DOMAIN q.options :
            StartsWithLine(q.options[k].text,
                           h.decl[LastDecl(h, q.options[k].original_label)][2])

\* B declared before A, and A declared twice with different texts
C6_Witness ==
  \E i \in Bank :
    LET d == bank_hist[i].decl
    IN /\ Len(d) = 3
       /\ d[1][1] = "A" /\ d[2][1] = "B" /\ d[3][1] = "A"
       /\ d[1][2] # d[3][2]

\* C7: the returned bank equals the bank of the same stream without the
\* paragraphs before its first QuestionStart.
C7_IdleParagraphsIgnored ==
  pc = "loaded" => questions = shadow.questions

C7_Witness ==
  /\ pc = "loaded"
  /\ hist.idle_noise
  /\ questions # <<>>

\* C8: after load_file, all_questions holds exactly the Questions the
\* parser finalized, ascending by id, those of equal id in finalization
\* order, none merged and none removed.
IdsOf(qs) == {qs[i].id : i \in DOMAIN qs}

WithId(qs, x) == LET Has(q) == q.id = x IN SelectSeq(qs, Has)

C8_BankSortedStable ==
  pc = "loaded" =>
    /\ Len(all_questions) = Len(questions)
    /\ \A i, j \in DOMAIN all_questions :
         i < j => all_questions[i].id <= all_questions[j].id
    /\ \A x \in IdsOf(questions) \cup IdsOf(all_questions) :
         WithId(all_questions, x) = WithId(questions, x)

\* two Questions finalized in descending id order
C8_Witness ==
  /\ pc = "loaded"
  /\ Len(questions) = 2
  /\ questions[1].id > questions[2].id
  /\ all_questions = <<questions[2], questions[1]>>

\* C9: parse returns an error only for a missing or unreadable document,
\* and then with an empty bank; a readable document never yields an error,
\* whatever blocks were dropped and whatever labels match no option.
C9_ErrorOnlyWhenUnavailable ==
  /\ error # NoError =>
       file \in {"absent", "vanished", "unreadable"} /\ questions = <<>>
  /\ file = "ok" => error = NoError

\* a readable document with a dropped block and a Question without a
\* correct option
C9_Witness ==
  /\ pc = "loaded"
  /\ file = "ok"
  /\ hist.block > Len(questions)
  /\ \E i \in Bank : ~HasCorrectOption(questions[i])

\* ------------------------------------------------------------------------
\* Properties of the steps of the paragraph loop
\* ------------------------------------------------------------------------
\* the step consumes a paragraph of the given kind while a question is open
CollectingStep(kind) ==
  /\ pc = "parsing"
  /\ hist.started
  /\ nparas' = nparas + 1
  /\ para'.kind = kind

UpperLetters == {"A", "B", "C", "D", "E"}

LowerOf(c) ==
  CASE c = "A" -> "a" [] c = "B" -> "b" [] c = "C" -> "c"
    [] c = "D" -> "d" [] OTHER -> "e"

\* up is the raw token in upper case
IsUpperOf(up, raw) == up \in UpperLetters /\ raw \in {up, LowerOf(up)}

\* the options after an OptionLine p
OptionsAfterOptionLine(p) ==
  /\ DOMAIN current_options' = DOMAIN current_options \cup {p.label}
  /\ \A l \in DOMAIN current_options' :
       current_options'[l] = IF l = p.label THEN p.text ELSE current_options[l]

\* the options after a free-text paragraph p continuing label last
OptionsAfterContinuation(p, last) ==
  /\ DOMAIN current_options' = DOMAIN current_options
  /\ \A l \in DOMAIN current_options :
       current_options'[l] =
         IF l = last THEN current_options[l] \o <<NL>> \o p.text
         ELSE current_options[l]

\* C12: a CorrectAnswerLine while a question is open replaces the whole
\* correct-label list by its own tokens in upper case and leaves the question
\* open; OptionLine and free-text paragraphs after it change the options as
\* they do before it.
C12_CorrectLineReplacesKeepsOpen ==
  [][/\ CollectingStep("CorrectAnswerLine") =>
          /\ Len(current_correct') = Len(para'.tokens)
          /\ \A i \in DOMAIN current_correct' :
               IsUpperOf(current_correct'[i], para'.tokens[i])
          /\ questions' = questions
          /\ current_q_id' = current_q_id
          /\ current_text' = current_text
          /\ current_options' = current_options
          /\ last_option_label' = last_option_label
     /\ (hist.seen_correct /\ CollectingStep("OptionLine")) =>
          /\ OptionsAfterOptionLine(para')
          /\ questions' = questions
          /\ current_q_id' = current_q_id
          /\ current_correct' = current_correct
     /\ (hist.seen_correct /\ CollectingStep("Other") /\ ~Skipped(para')) =>
          /\ IF DOMAIN current_options = {}
             THEN current_options' = current_options
             ELSE OptionsAfterContinuation(para', last_option_label)
          /\ questions' = questions
          /\ current_q_id' = current_q_id
          /\ current_correct' = current_correct]_vars

\* an OptionLine recorded after a CorrectAnswerLine whose tokens were
\* "a" and "B"
C12_Witness ==
  /\ pc = "parsing"
  /\ hist.seen_correct
  /\ para.kind = "OptionLine"
  /\ current_correct = <<"A", "B">>
  /\ current_options[para.label] = para.text

\* C13: a free-text paragraph while a question is open is appended to the
\* stem lines if no OptionLine was declared in the block, and otherwise is
\* appended, newline-joined, to the text of the label of the last OptionLine
\* and to nothing else.
C13_OtherContinuesStemOrLastOption ==
  [][(CollectingStep("Other") /\ ~Skipped(para')) =>
       IF hist.decl = <<>>
       THEN /\ current_text' = Append(current_text, para'.text)
            /\ current_options' = current_options
       ELSE /\ current_text' = current_text
            /\ OptionsAfterContinuation(para', hist.decl[Len(hist.decl)][1])]_vars

\* free text after OptionLines A then B: only B's text is continued
C13_Witness ==
  /\ pc = "parsing"
  /\ para.kind = "Other"
  /\ para.text = <<"w">>
  /\ Len(hist.decl) = 2
  /\ hist.decl[1][1] = "A"
  /\ hist.decl[2][1] = "B"
  /\ current_options["A"] = hist.decl[1][2]
  /\ current_options["B"] = hist.decl[2][2] \o <<NL, "w">>

\* C14: for every Question of the bank, the text of each option is trimmed:
\* it has no leading or trailing whitespace or newline.
C14_OptionTextTrimmed ==
  \A i \in Bank : \A k \in DOMAIN questions[i].options :
    questions[i].options[k].text = Strip(questions[i].options[k].text)

\* a step of the parse: a paragraph of the loop or the end of the stream
ParseStep == pc = "parsing" /\ (nparas' = nparas + 1 \/ pc' = "loaded")

\* C15: during the parse the bank is append-only and in finalization order:
\* a step leaves the bank alone or, being the finalization of an open
\* question, appends one Question after the ones already there; the
\* Questions are in the order of their QuestionStart paragraphs and are never
\* more than the QuestionStart paragraphs consumed.
C15_BankAppendOnlyInOrder ==
  [][ParseStep =>
       /\ \/ questions' = questions
          \/ /\ Finalizing
             /\ Len(questions') = Len(questions) + 1
             /\ SubSeq(questions', 1, Len(questions)) = questions
       /\ Len(bank_hist') = Len(questions')
       /\ \A i, j \in DOMAIN bank_hist' :
            i < j => bank_hist'[i].block < bank_hist'[j].block
       /\ Len(questions') <= hist.block]_vars

\* two Questions extracted, the second by the QuestionStart-free end of the
\* stream, from the first and the second block
C15_Witness ==
  /\ pc = "loaded"
  /\ Len(questions) = 2
  /\ questions[1] # questions[2]
  /\ bank_hist[1].block = 1
  /\ bank_hist[2].block = 2

\* the accumulator of a run without its bank
Accumulator(st) == [st EXCEPT !.questions = <<>>]

\* C16: while a question is open the accumulator is the one that a parse of
\* its block alone (the paragraphs from its QuestionStart on) has, and the
\* finalization of the block, by the next QuestionStart or by the end of the
\* stream, adds to the bank what that parse emits at the end of its stream:
\* nothing of an earlier block, kept or dropped, and nothing of the next
\* QuestionStart paragraph is in the Question.
C16_QuestionFromOwnBlockOnly ==
  [][/\ (pc = "parsing" /\ hist.started) =>
          Accumulator(Locals) = Accumulator(hist.solo)
     /\ Finalizing =>
          questions' = questions \o finalize_question(hist.solo).questions]_vars

\* a multi-choice Question with option text x followed by a single-choice
\* Question with option text y
C16_Witness ==
  /\ pc = "loaded"
  /\ Len(questions) = 2
  /\ questions[1].is_multichoice
  /\ ~questions[2].is_multichoice
  /\ questions[1].options[1].text = <<"x">>
  /\ questions[2].options[1].text = <<"y">>

\* C17: the step that consumes a QuestionStart paragraph leaves the open
\* question without image whatever blob the paragraph carries, a Question
\* appended by that step has the image held before the step, and any other
\* paragraph leaves the image as it was or sets it to its own blob.
C17_StartImageNotAttached ==
  [][(pc = "parsing" /\ nparas' = nparas + 1) =>
       IF para'.kind = "QuestionStart"
       THEN /\ current_image_data' = NoImage
            /\ Len(questions') > Len(questions) =>
                 questions'[Len(questions')].image_data = current_image_data
       ELSE current_image_data' \in {current_image_data, para'.img}]_vars

\* a QuestionStart paragraph with an image closed a kept block and opened
\* a question that has no image
C17_Witness ==
  /\ pc = "parsing"
  /\ para.kind = "QuestionStart"
  /\ para.img # NoImage
  /\ current_q_id = para.q_id
  /\ current_image_data = NoImage
  /\ Len(questions) = 1

\* ------------------------------------------------------------------------
\* Properties of the session
\* ------------------------------------------------------------------------
ParsedContent(q) ==
  [id |-> q.id, text |-> q.text, options |-> q.options,
   is_multichoice |-> q.is_multichoice, image_data |-> q.image_data]

BankContent == [i \in DOMAIN all_questions |-> ParsedContent(all_questions[i])]

\* C10: once load_file has produced the bank, start_exam, answering and
\* navigating leave the order of all_questions and each Question's id,
\* text, option order, is_multichoice and image as they were.
C10_BankContentFrozen ==
  [][(pc = "loaded" \/ pc = "exam") => BankContent' = BankContent]_vars

\* the active questions, through active_questions
Active == {active_questions[i] : i \in DOMAIN active_questions}

Locked == {i \in Active : all_questions[i].is_locked}

\* C18: during an exam answered_count is the number of locked active
\* questions, and 0 <= correct_count <= answered_count <= len(active_questions).
C18_ScoredOncePerLockedQuestion ==
  pc = "exam" =>
    /\ Cardinality(Active) = Len(active_questions)
    /\ answered_count = Cardinality(Locked)
    /\ 0 <= correct_count
    /\ correct_count <= answered_count
    /\ answered_count <= Len(active_questions)

\* both questions of an exam scored, one of them correct
C18_Witness ==
  /\ pc = "exam"
  /\ Len(active_questions) = 2
  /\ answered_count = 2
  /\ correct_count = 1

\* C19: a step of the exam (option click, Next, Previous) leaves every
\* locked active question locked and with the same user_answers.
C19_LockedQuestionFrozen ==
  [][pc = "exam" =>
       \A i \in Locked :
         /\ all_questions'[i].is_locked
         /\ all_questions'[i].user_answers = all_questions[i].user_answers]_vars

\* back on the first question after both were locked with an answer
C19_Witness ==
  /\ pc = "exam"
  /\ Len(active_questions) = 2
  /\ current_idx = 0
  /\ Locked = Active
  /\ \A i \in Active : all_questions[i].user_answers # <<>>

\* C20: a step that scores a question none of whose options is correct
\* does not increment correct_count, whatever was selected.
C20_NoCorrectOptionNeverCorrect ==
  [][(pc = "exam" /\ HasCurrent /\ ~HasCorrectOption(Current)
        /\ answered_count' # answered_count) =>
       /\ answered_count' = answered_count + 1
       /\ correct_count' = correct_count]_vars

\* a multiple-choice question without correct option scored with nothing
\* selected
C20_Witness ==
  /\ pc = "exam"
  /\ answered_count = 1
  /\ correct_count = 0
  /\ \E i \in Locked :
       /\ ~HasCorrectOption(all_questions[i])
       /\ all_questions[i].is_multichoice
       /\ all_questions[i].user_answers = <<>>

====
